---- MODULE Spec2Model ----
(***************************************************************************)
(* Model of openwisp_notifications: the notification type registry         *)
(* (types.py) and the notification model's rendering and caching           *)
(* (base/models.py).                                                       *)
(***************************************************************************)
EXTENDS Integers, Sequences, FiniteSets, TLC

VARIABLES
    NOTIFICATION_TYPES,             \* types.py: dict type name -> type config
    typeOrder,                      \* the keys of NOTIFICATION_TYPES in the dict's order
    NOTIFICATION_CHOICES,           \* types.py: list of (type name, verbose name)
    NOTIFICATION_ASSOCIATED_MODELS, \* types.py: set of model names
    call,                           \* the registry call that completed last
    cache,                          \* django.core.cache: key -> value
    objects,                        \* the rows generic foreign keys point at
    rel,                            \* the _related_object call of each worker
    stored,                         \* per reference: what the last store wrote
    unread,                         \* per user: the unread count in the database
    rd,                             \* the unread-count read of each reader
    invalidated,                    \* per user: the count when the cache was last invalidated
    lateStore,                      \* per user: a reader stored a count older than that
    notif,                          \* the notification instance in memory
    run,                            \* the rendering call on it
    tasks,                          \* the queue of delete_notification tasks
    rows,                           \* the pks of the stored notifications
    setting,                        \* a notification setting instance in memory
    sdone,                          \* the call on it that completed last
    settingRow                      \* the setting row as last written to the database

regState == <<NOTIFICATION_TYPES, typeOrder, NOTIFICATION_CHOICES,
              NOTIFICATION_ASSOCIATED_MODELS>>
regVars == <<NOTIFICATION_TYPES, typeOrder, NOTIFICATION_CHOICES,
             NOTIFICATION_ASSOCIATED_MODELS, call>>
relVars == <<objects, rel, stored>>
unreadVars == <<unread, rd, invalidated, lateStore>>
renderVars == <<notif, run, tasks, rows>>
settingVars == <<setting, sdone, settingRow>>
vars == <<NOTIFICATION_TYPES, typeOrder, NOTIFICATION_CHOICES, NOTIFICATION_ASSOCIATED_MODELS,
          call, cache, objects, rel, stored, unread, rd, invalidated, lateStore,
          notif, run, tasks, rows, setting, sdone, settingRow>>

(***************************************************************************)
(* Python values.  A value handed to the registry carries its type, so     *)
(* that isinstance() is a test of the model and not an assumption.         *)
(***************************************************************************)
EmptyDict == [k \in {} |-> ""]

PyStr(s) == [t |-> "str", v |-> s]
PyNone == [t |-> "NoneType", v |-> ""]
PyDict(d) == [t |-> "dict", v |-> d]
PyList == [t |-> "list", v |-> EmptyDict]

\* Python truth value of a name argument: None and the empty string are falsy.
Truthy(x) == x.t # "NoneType" /\ x.v # ""

(***************************************************************************)
(* Format strings.  A format string is the sequence of its replacement     *)
(* fields, in the order str.format evaluates them.                         *)
(***************************************************************************)
Attr(a) == [kind |-> "attr", name |-> a]     \* {notification.<a>}
Key(k) == [kind |-> "key", name |-> k]       \* {<k>}, a keyword from data
Site(a) == [kind |-> "site", name |-> a]     \* {site.<a>}
Pos == [kind |-> "pos", name |-> "0"]        \* {0}, a positional field

DefaultTemplate == "openwisp_notifications/default_message.md"
\* The templates django.template.loader.get_template can load.
LoadableTemplates == {DefaultTemplate, "ok.md"}

DefaultConfig ==
    [level |-> "info",
     verb |-> "default verb",
     verbose_name |-> "Default Type",
     email_subject |-> <<Site("name")>>,
     message |-> <<Attr("verb"), Attr("level"), Attr("actor"), Attr("actor_link")>>,
     message_template |-> DefaultTemplate,
     email_notification |-> TRUE,
     web_notification |-> TRUE]

Without(d, ks) == [k \in (DOMAIN d) \ ks |-> d[k]]
With(d, k, val) == [j \in (DOMAIN d) \cup {k} |-> IF j = k THEN val ELSE d[j]]

(***************************************************************************)
(* Inputs of the registry calls.                                           *)
(***************************************************************************)
InlineConfig ==
    [level |-> "warning",
     verb |-> "alerted",
     email_subject |-> <<Site("name"), Attr("verb")>>,
     message |-> <<Attr("verb"), Key("who")>>]

TypeNames == {"default", "", "x"}
NameInputs == {PyStr(s) : s \in TypeNames} \cup {PyNone}

ConfigDicts ==
    { InlineConfig,
      With(With(With(InlineConfig, "email_notification", FALSE),
                "web_notification", FALSE), "verbose_name", "X Type"),
      With(InlineConfig, "web_notification", FALSE),
      With(Without(InlineConfig, {"message"}), "message_template", "ok.md"),
      With(InlineConfig, "message_template", "missing.md"),
      Without(InlineConfig, {"level"}),
      Without(InlineConfig, {"verb"}),
      Without(InlineConfig, {"email_subject"}),
      Without(InlineConfig, {"message"}) }
ConfigInputs == {PyDict(d) : d \in ConfigDicts} \cup {PyList}

ModelNames == {"device"}
ModelInputs == SUBSET ModelNames

(***************************************************************************)
(* types.py                                                                *)
(***************************************************************************)
\* get_notification_configuration without the test of line 25.
get_without_null_test(notification_type) ==
    IF notification_type.t = "str" /\ notification_type.v \in DOMAIN NOTIFICATION_TYPES
    THEN [err |-> "none", val |-> NOTIFICATION_TYPES[notification_type.v]]
    ELSE [err |-> "ImproperlyConfigured", val |-> EmptyDict]

\* get_notification_configuration: the value returned or the error raised.
get_notification_configuration(notification_type) ==
    IF ~Truthy(notification_type)
    THEN [err |-> "none", val |-> EmptyDict]
    ELSE IF notification_type.t = "str" /\ notification_type.v \in DOMAIN NOTIFICATION_TYPES
         THEN [err |-> "none", val |-> NOTIFICATION_TYPES[notification_type.v]]
         ELSE [err |-> "ImproperlyConfigured", val |-> EmptyDict]

\* ValidationError without the get_template call of line 41.
ValidationErrorNoTemplateLoad(type_config) ==
    LET options == DOMAIN type_config IN
    IF "level" \notin options THEN "AssertionError"
    ELSE IF "verb" \notin options THEN "AssertionError"
    ELSE IF "email_subject" \notin options THEN "AssertionError"
    ELSE IF ~(("message" \in options) \/ ("message_template" \in options))
         THEN "AssertionError"
    ELSE "none"

\* _validate_notification_type: the asserts, the template load, the defaults.
ValidationError(type_config) ==
    LET options == DOMAIN type_config IN
    IF "level" \notin options THEN "AssertionError"
    ELSE IF "verb" \notin options THEN "AssertionError"
    ELSE IF "email_subject" \notin options THEN "AssertionError"
    ELSE IF ~(("message" \in options) \/ ("message_template" \in options))
         THEN "AssertionError"
    ELSE IF "message_template" \in options
            /\ type_config["message_template"] \notin LoadableTemplates
         THEN "TemplateDoesNotExist"
    ELSE "none"

\* _validate_notification_type setting both flags whether given or not.
_validate_overwriting_flags(type_config) ==
    With(With(type_config, "email_notification", TRUE), "web_notification", TRUE)

_validate_notification_type(type_config) ==
    LET options == DOMAIN type_config
        withEmail == IF "email_notification" \notin options
                     THEN With(type_config, "email_notification", TRUE)
                     ELSE type_config
    IN  IF "web_notification" \notin options
        THEN With(withEmail, "web_notification", TRUE)
        ELSE withEmail

\* _register_notification_choice inserting the choice at the front.
_register_choice_at_front(type_name, type_config) ==
    LET name == IF "verbose_name" \in DOMAIN type_config
                THEN type_config["verbose_name"] ELSE type_name
    IN  << <<type_name, name>> >> \o NOTIFICATION_CHOICES

\* _register_notification_choice
_register_notification_choice(type_name, type_config) ==
    LET name == IF "verbose_name" \in DOMAIN type_config
                THEN type_config["verbose_name"] ELSE type_name
    IN  Append(NOTIFICATION_CHOICES, <<type_name, name>>)

\* RegisterError without the duplicate check of line 62.
RegisterErrorNoDuplicateCheck(type_name, type_config) ==
    IF type_name.t # "str" THEN "ImproperlyConfigured"
    ELSE IF type_config.t # "dict" THEN "ImproperlyConfigured"
    ELSE ValidationError(type_config.v)

\* The error register_notification_type raises, "none" when it returns.
RegisterError(type_name, type_config) ==
    IF type_name.t # "str" THEN "ImproperlyConfigured"
    ELSE IF type_config.t # "dict" THEN "ImproperlyConfigured"
    ELSE IF type_name.v \in DOMAIN NOTIFICATION_TYPES THEN "ImproperlyConfigured"
    ELSE ValidationError(type_config.v)

\* The record of a completed call: its arguments, the error it raised ("none"
\* when it returned) and the configuration it returned (get only).
Done(op, name, config, models, err, val) ==
    [op |-> op, name |-> name, config |-> config, models |-> models, err |-> err,
     val |-> val]

\* register_notification_type updating the associated models before it
\* checks its arguments.
register_models_first(type_name, type_config, models) ==
    LET err == RegisterError(type_name, type_config) IN
    /\ call' = Done("register", type_name, type_config, models, err, EmptyDict)
    /\ NOTIFICATION_ASSOCIATED_MODELS' = NOTIFICATION_ASSOCIATED_MODELS \cup models
    /\ IF err # "none"
       THEN UNCHANGED <<NOTIFICATION_TYPES, typeOrder, NOTIFICATION_CHOICES>>
       ELSE LET validated_type_config == _validate_notification_type(type_config.v) IN
            /\ NOTIFICATION_TYPES' =
                   With(NOTIFICATION_TYPES, type_name.v, validated_type_config)
            /\ typeOrder' = Append(typeOrder, type_name.v)
            /\ NOTIFICATION_CHOICES' =
                   _register_notification_choice(type_name.v, validated_type_config)

register_notification_type(type_name, type_config, models) ==
    LET err == RegisterError(type_name, type_config) IN
    /\ call' = Done("register", type_name, type_config, models, err, EmptyDict)
    /\ IF err # "none"
       THEN UNCHANGED regState
       ELSE LET validated_type_config == _validate_notification_type(type_config.v) IN
            /\ NOTIFICATION_TYPES' =
                   With(NOTIFICATION_TYPES, type_name.v, validated_type_config)
            /\ typeOrder' = Append(typeOrder, type_name.v)
            /\ NOTIFICATION_CHOICES' =
                   _register_notification_choice(type_name.v, validated_type_config)
            /\ NOTIFICATION_ASSOCIATED_MODELS' = NOTIFICATION_ASSOCIATED_MODELS \cup models

\* The index of the first choice whose key is notification_type, 0 when none.
ChoiceIndex(notification_type) ==
    LET hits == {i \in 1..Len(NOTIFICATION_CHOICES) :
                    NOTIFICATION_CHOICES[i][1] = notification_type}
    IN  IF hits = {} THEN 0 ELSE CHOOSE i \in hits : \A j \in hits : i <= j

RemoveAt(s, i) == SubSeq(s, 1, i - 1) \o SubSeq(s, i + 1, Len(s))

\* _unregister_notification_choice popping the last choice.
_unregister_last_choice(notification_type) ==
    RemoveAt(NOTIFICATION_CHOICES, Len(NOTIFICATION_CHOICES))

\* _unregister_notification_choice: pops the first matching choice.
_unregister_notification_choice(notification_type) ==
    RemoveAt(NOTIFICATION_CHOICES, ChoiceIndex(notification_type))

UnregisterError(type_name) ==
    IF type_name.t # "str" THEN "ImproperlyConfigured"
    ELSE IF type_name.v \notin DOMAIN NOTIFICATION_TYPES THEN "ImproperlyConfigured"
    ELSE "none"

unregister_notification_type(type_name) ==
    LET err == UnregisterError(type_name) IN
    /\ IF err # "none"
       THEN /\ call' = Done("unregister", type_name, PyList, {}, err, EmptyDict)
            /\ UNCHANGED regState
       ELSE /\ NOTIFICATION_TYPES' = Without(NOTIFICATION_TYPES, {type_name.v})
            /\ typeOrder' = SelectSeq(typeOrder, LAMBDA n : n # type_name.v)
            /\ IF ChoiceIndex(type_name.v) = 0
               THEN \* the pop of line 79 stays, the choice lookup raises
                    /\ call' = Done("unregister", type_name, PyList, {},
                                    "ImproperlyConfigured", EmptyDict)
                    /\ UNCHANGED NOTIFICATION_CHOICES
               ELSE /\ call' = Done("unregister", type_name, PyList, {}, "none", EmptyDict)
                    /\ NOTIFICATION_CHOICES' = _unregister_notification_choice(type_name.v)
            /\ UNCHANGED NOTIFICATION_ASSOCIATED_MODELS

\* A caller reading a type's configuration.
Get == \E n \in NameInputs :
    LET r == get_notification_configuration(n) IN
    /\ call' = Done("get", n, PyList, {}, r.err, r.val)
    /\ UNCHANGED <<regState, cache, relVars, unreadVars, renderVars, settingVars>>

Register == \E n \in NameInputs, c \in ConfigInputs, m \in ModelInputs :
    /\ register_notification_type(n, c, m)
    /\ UNCHANGED <<cache, relVars, unreadVars, renderVars, settingVars>>

Unregister == \E n \in NameInputs :
    /\ unregister_notification_type(n)
    /\ UNCHANGED <<cache, relVars, unreadVars, renderVars, settingVars>>

InitRegistry ==
    /\ NOTIFICATION_TYPES = [n \in {"default"} |-> DefaultConfig]
    /\ typeOrder = <<"default">>
    /\ NOTIFICATION_CHOICES = << <<"default", "Default Type">> >>
    /\ NOTIFICATION_ASSOCIATED_MODELS = {}
    /\ call = Done("none", PyNone, PyList, {}, "none", EmptyDict)

NextRegistry == Register \/ Unregister \/ Get

(***************************************************************************)
(* base/models.py: cache keys.  A string is the sequence of its            *)
(* characters, so that two keys are equal exactly when their texts are.    *)
(***************************************************************************)
PyInt(n) == [t |-> "int", n |-> n]
PyText(chars) == [t |-> "str", s |-> chars]
PyObj(ref, rev) == [t |-> "obj", ref |-> ref, rev |-> rev]

Digit == <<"0", "1", "2", "3", "4", "5", "6", "7", "8", "9">>

RECURSIVE StrInt(_)
StrInt(n) == IF n < 10 THEN <<Digit[n + 1]>>
             ELSE StrInt(n \div 10) \o <<Digit[(n % 10) + 1]>>

\* str(x)
Str(x) == IF x.t = "int" THEN StrInt(x.n)
          ELSE IF x.t = "NoneType" THEN <<"N", "o", "n", "e">>
          ELSE x.s

RECURSIVE Join(_, _)
Join(sep, strs) == IF Len(strs) = 0 THEN <<>>
                   ELSE IF Len(strs) = 1 THEN strs[1]
                   ELSE strs[1] \o sep \o Join(sep, Tail(strs))

CACHE_KEY_PREFIX ==
    <<"o", "w", "-", "n", "o", "t", "i", "f", "i", "c", "a", "t", "i", "o", "n", "s", "-">>

\* _cache_key(cls, *args)
_cache_key(args) ==
    LET strs == [i \in 1..Len(args) |-> Str(args[i])]
        key == Join(<<"-">>, strs)
    IN  CACHE_KEY_PREFIX \o key

\* count_cache_key(cls, user_pk)
count_cache_key(user_pk) ==
    _cache_key(<<PyText(<<"u", "n", "r", "e", "a", "d", "-">> \o Str(user_pk))>>)

(***************************************************************************)
(* django.core.cache: get, set and delete of the cache store.              *)
(***************************************************************************)
\* cache.get(key): the value stored, None when there is no entry.
CacheGet(key) == IF key \in DOMAIN cache THEN cache[key] ELSE PyNone
\* cache.set(key, value, timeout)
CacheSet(key, value) == [k \in (DOMAIN cache) \cup {key} |->
                            IF k = key THEN value ELSE cache[k]]
\* cache.delete(key)
CacheDelete(key) == [k \in (DOMAIN cache) \ {key} |-> cache[k]]

(***************************************************************************)
(* base/models.py: _related_object, one step per cache or database access. *)
(***************************************************************************)
NumWorkers == 2
Workers == 1..NumWorkers
MaxRev == 2

\* The generic references a notification field can hold: content type id
\* and object id.
Ref(ct, id) == [ct |-> ct, id |-> id]
RowRefs == {Ref(PyInt(1), PyText(<<"7">>)), Ref(PyInt(2), PyText(<<"7">>))}
EmptyRefs == {Ref(PyNone, PyNone), Ref(PyInt(1), PyText(<<>>))}
RefInputs == RowRefs \cup EmptyRefs

\* Python truth value of an object id and of a resolved object.
TruthyId(x) == x.t # "NoneType" /\ ~(x.t = "str" /\ x.s = <<>>)
TruthyObj(x) == x.t = "obj"

RefKey(ref) == _cache_key(<<ref.ct, ref.id>>)

\* The generic foreign key's fetch finding no row.
FetchNothing(ref) == PyNone

\* getattr(self, f'_{field}'): the generic foreign key's fetch, None when
\* the row is gone.
Fetch(ref) == IF ref \in DOMAIN objects /\ objects[ref] > 0
              THEN PyObj(ref, objects[ref]) ELSE PyNone

\* `if not obj` of line 156, with the value cache.get returned.
IsMiss(obj) == ~TruthyObj(obj)

\* cache.set of lines 158-162 with a timeout that expires at once.
StoreExpired(key, obj) == cache
\* cache.set of lines 158-162 skipping a None.
StoreUnlessNone(key, obj) == IF obj.t = "NoneType" THEN cache ELSE CacheSet(key, obj)
\* The cache after the cache.set of lines 158-162.
StoreRelated(key, obj) == CacheSet(key, obj)

NoEntry == [t |-> "absent"]
RelIdle == [pc |-> "idle", ref |-> Ref(PyNone, PyNone), obj |-> PyNone, ret |-> PyNone,
            looked |-> FALSE, after |-> FALSE, gone |-> FALSE, calls |-> 0,
            seen |-> 0, overwrote |-> FALSE]

\* Lines 150-153: reads the ids, returns None for a falsy object id.
RelStart(w, ref) ==
    /\ rel[w].pc = "idle"
    /\ rel' = [rel EXCEPT ![w] =
                 [pc |-> IF TruthyId(ref.id) THEN "get" ELSE "idle",
                  ref |-> ref, obj |-> PyNone, ret |-> PyNone, looked |-> FALSE,
                  after |-> TruthyId(ref.id) /\ TruthyObj(stored[ref]),
                  gone |-> TruthyId(ref.id) /\ Fetch(ref) = PyNone,
                  calls |-> 1,
                  seen |-> IF ref \in DOMAIN objects THEN objects[ref] ELSE 0,
                  overwrote |-> FALSE]]
    /\ UNCHANGED <<cache, objects, stored>>

\* Lines 154-156: cache.get, and the return of a hit.
RelCacheGet(w) ==
    /\ rel[w].pc = "get"
    /\ LET obj == CacheGet(RefKey(rel[w].ref)) IN
       rel' = [rel EXCEPT ![w].obj = obj,
                          ![w].ret = IF IsMiss(obj) THEN PyNone ELSE obj,
                          ![w].pc = IF IsMiss(obj) THEN "lookup" ELSE "idle"]
    /\ UNCHANGED <<cache, objects, stored>>

\* Line 157: the lookup of the underlying object.
RelLookup(w) ==
    /\ rel[w].pc = "lookup"
    /\ rel' = [rel EXCEPT ![w].obj = Fetch(rel[w].ref), ![w].looked = TRUE,
                          ![w].pc = "set"]
    /\ UNCHANGED <<cache, objects, stored>>

\* Lines 158-163: cache.set and the return.  A store of another value than
\* the last one ends the "after" of the calls that started after that one.
RelCacheSet(w) ==
    /\ rel[w].pc = "set"
    /\ LET ref == rel[w].ref
           obj == rel[w].obj IN
       /\ cache' = StoreRelated(RefKey(ref), obj)
       /\ stored' = [stored EXCEPT ![ref] = obj]
       /\ rel' = [v \in Workers |->
                    IF v = w THEN [rel[w] EXCEPT !.pc = "idle", !.ret = obj,
                                                 !.overwrote = TruthyObj(CacheGet(RefKey(ref)))]
                    ELSE IF rel[v].ref = ref /\ stored[ref] # obj
                         THEN [rel[v] EXCEPT !.after = FALSE]
                         ELSE rel[v]]
    /\ UNCHANGED objects

\* What ends the undisturbed time of a reference: its calls are no longer
\* calls that follow an undisturbed store.
Disturb(ref) ==
    /\ stored' = [stored EXCEPT ![ref] = NoEntry]
    /\ rel' = [v \in Workers |->
                 IF rel[v].ref = ref THEN [rel[v] EXCEPT !.after = FALSE] ELSE rel[v]]

\* The row is saved with new content.
ModifyObject(ref) ==
    /\ objects[ref] > 0
    /\ objects[ref] < MaxRev
    /\ objects' = [objects EXCEPT ![ref] = @ + 1]
    /\ Disturb(ref)
    /\ UNCHANGED cache

\* The row is deleted; its id is not used again.
DeleteObject(ref) ==
    /\ objects[ref] > 0
    /\ objects' = [objects EXCEPT ![ref] = 0]
    /\ Disturb(ref)
    /\ UNCHANGED cache

\* The entry of a reference reaches OPENWISP_NOTIFICATIONS_CACHE_TIMEOUT.
ExpireRelated(ref) ==
    /\ RefKey(ref) \in DOMAIN cache
    /\ cache' = CacheDelete(RefKey(ref))
    /\ Disturb(ref)
    /\ UNCHANGED objects

InitCache == cache = EmptyDict

InitResolve ==
    /\ objects = [r \in RowRefs |-> 1]
    /\ rel = [w \in Workers |-> RelIdle]
    /\ stored = [r \in RowRefs |-> NoEntry]

NextResolve ==
    \/ \E w \in Workers, ref \in RefInputs :
          RelStart(w, ref) /\ UNCHANGED <<regVars, unreadVars, renderVars, settingVars>>
    \/ \E w \in Workers : RelCacheGet(w) /\ UNCHANGED <<regVars, unreadVars, renderVars, settingVars>>
    \/ \E w \in Workers : RelLookup(w) /\ UNCHANGED <<regVars, unreadVars, renderVars, settingVars>>
    \/ \E w \in Workers : RelCacheSet(w) /\ UNCHANGED <<regVars, unreadVars, renderVars, settingVars>>
    \/ \E ref \in RowRefs : ModifyObject(ref) /\ UNCHANGED <<regVars, unreadVars, renderVars, settingVars>>
    \/ \E ref \in RowRefs : DeleteObject(ref) /\ UNCHANGED <<regVars, unreadVars, renderVars, settingVars>>
    \/ \E ref \in RowRefs : ExpireRelated(ref) /\ UNCHANGED <<regVars, unreadVars, renderVars, settingVars>>

(***************************************************************************)
(* base/models.py: the unread count of a user in the cache.  The readers   *)
(* that fill the entry are callers of this module.                         *)
(***************************************************************************)
NumReaders == 2
Readers == 1..NumReaders
MaxUnread == 2
Users == {PyInt(1), PyInt(2)}

\* invalidate_unread_cache deleting the unread key of every user.
invalidate_every_user(user) ==
    /\ cache' = [k \in (DOMAIN cache) \ {count_cache_key(u) : u \in Users} |-> cache[k]]
    /\ invalidated' = [invalidated EXCEPT ![user] = unread[user]]
    /\ lateStore' = [lateStore EXCEPT ![user] = FALSE]
    /\ UNCHANGED <<unread, rd>>

\* invalidate_unread_cache(cls, user), user given by its pk.
invalidate_unread_cache(user) ==
    /\ cache' = CacheDelete(count_cache_key(user))
    /\ invalidated' = [invalidated EXCEPT ![user] = unread[user]]
    /\ lateStore' = [lateStore EXCEPT ![user] = FALSE]
    /\ UNCHANGED <<unread, rd>>

\* A notification of the user is saved unread; the caller invalidates next.
ChangeUnread(user) ==
    /\ unread[user] < MaxUnread
    /\ unread' = [unread EXCEPT ![user] = @ + 1]
    /\ UNCHANGED <<cache, rd, invalidated, lateStore>>

\* A reader: cache.get, and on a miss the count from the database, stored.
ReadStart(r, user) ==
    /\ rd[r].pc = "idle"
    /\ LET v == CacheGet(count_cache_key(user)) IN
       rd' = [rd EXCEPT ![r] = [pc |-> IF v = PyNone THEN "compute" ELSE "idle",
                                user |-> user,
                                count |-> IF v = PyNone THEN 0 ELSE v.n]]
    /\ UNCHANGED <<cache, unread, invalidated, lateStore>>

ReadCompute(r) ==
    /\ rd[r].pc = "compute"
    /\ rd' = [rd EXCEPT ![r].count = unread[rd[r].user], ![r].pc = "store"]
    /\ UNCHANGED <<cache, unread, invalidated, lateStore>>

ReadStore(r) ==
    /\ rd[r].pc = "store"
    /\ cache' = CacheSet(count_cache_key(rd[r].user), PyInt(rd[r].count))
    /\ rd' = [rd EXCEPT ![r].pc = "idle"]
    /\ lateStore' = [lateStore EXCEPT ![rd[r].user] = @ \/ rd[r].count < invalidated[rd[r].user]]
    /\ UNCHANGED <<unread, invalidated>>

\* The unread entry of a user reaches the cache's timeout.
ExpireUnread(user) ==
    /\ count_cache_key(user) \in DOMAIN cache
    /\ cache' = CacheDelete(count_cache_key(user))
    /\ lateStore' = [lateStore EXCEPT ![user] = FALSE]
    /\ UNCHANGED <<unread, rd, invalidated>>

InitUnread ==
    /\ unread = [u \in Users |-> 0]
    /\ rd = [r \in Readers |-> [pc |-> "idle", user |-> PyInt(1), count |-> 0]]
    /\ invalidated = [u \in Users |-> 0]
    /\ lateStore = [u \in Users |-> FALSE]

\* The cache holding the object of one reference, as _related_object left it.
InitCacheWithObject ==
    LET ref == Ref(PyInt(1), PyText(<<"7">>)) IN
    cache = [k \in {RefKey(ref)} |-> PyObj(ref, 1)]

NextUnread ==
    \/ \E u \in Users : invalidate_unread_cache(u) /\ UNCHANGED <<regVars, relVars, renderVars, settingVars>>
    \/ \E u \in Users : ChangeUnread(u) /\ UNCHANGED <<regVars, relVars, renderVars, settingVars>>
    \/ \E r \in Readers, u \in Users : ReadStart(r, u) /\ UNCHANGED <<regVars, relVars, renderVars, settingVars>>
    \/ \E r \in Readers : ReadCompute(r) /\ UNCHANGED <<regVars, relVars, renderVars, settingVars>>
    \/ \E r \in Readers : ReadStore(r) /\ UNCHANGED <<regVars, relVars, renderVars, settingVars>>
    \/ \E u \in Users : ExpireUnread(u) /\ UNCHANGED <<regVars, relVars, renderVars, settingVars>>

(***************************************************************************)
(* base/models.py: AbstractNotification, one instance in memory.           *)
(***************************************************************************)
MaxTasks == 2
Pks == {1, 2}

Unset == [t |-> "unset"]          \* the instance has no such attribute
SiteName == "example.com"

\* The data of a notification: None or a dict.
DataInputs == {PyNone, PyDict(EmptyDict), PyDict([who |-> "bob"]),
               PyDict([email_subject |-> "Subject"]), PyDict([email_subject |-> ""])}
TypeInputs == {PyNone} \cup {PyStr(s) : s \in {"", "default", "x", "tpl", "attr", "pos", "gone"}}
\* The actor of a notification; its action object and target are not set.
ActorInputs == {Ref(PyNone, PyNone), Ref(PyInt(1), PyText(<<"7">>))}

\* The instance __init__ builds from a row: no link attribute, nothing cached.
\* returned records what each property of the instance returned last, again
\* that the last return was of a property that had returned before.
NewNotification(pk, type, data, actor) ==
    [pk |-> pk, type |-> type, data |-> data, description |-> "desc",
     verb |-> "pinged", level |-> "info", actor |-> actor,
     actor_link |-> Unset, action_link |-> Unset, target_link |-> Unset,
     memo |-> EmptyDict, returned |-> EmptyDict, again |-> FALSE]

\* _related_object as one step: the value it returns and the cache it leaves.
RelatedNow(ref) ==
    IF ~TruthyId(ref.id) THEN PyNone
    ELSE LET obj == CacheGet(RefKey(ref)) IN
         IF IsMiss(obj) THEN Fetch(ref) ELSE obj

CacheAfterRelated(ref) ==
    IF ~TruthyId(ref.id) THEN cache
    ELSE IF IsMiss(CacheGet(RefKey(ref))) THEN StoreRelated(RefKey(ref), Fetch(ref))
    ELSE cache

\* The cached_property actor.
ActorOf(n) == IF "actor" \in DOMAIN n.memo THEN n.memo["actor"] ELSE RelatedNow(n.actor)
CacheAfterActor(n) == IF "actor" \in DOMAIN n.memo THEN cache ELSE CacheAfterRelated(n.actor)

\* utils._get_object_link(url_only, absolute_url): the object's URL, "#"
\* when there is no object.
_get_object_link(obj) ==
    IF TruthyObj(obj) THEN [t |-> "url", route |-> "change", arg |-> Str(obj.ref.id)]
    ELSE PyStr("#")

\* redirect_view_url
redirect_view_url(n) ==
    [t |-> "url", route |-> "notifications:notification_read_redirect",
     arg |-> StrInt(n.pk)]

\* str() of a resolved object or None, as a format field shows it.
ShowObj(obj) == IF TruthyObj(obj) THEN PyStr("object") ELSE PyStr("None")

LinkNames == {"actor_link", "action_link", "target_link"}
PlainAttrs == {"verb", "level", "description"}

\* getattr(notification, name): what a format field reads, or the error.
HasAttr(n, name) ==
    \/ name \in PlainAttrs \cup {"actor"}
    \/ name \in LinkNames /\ n[name] # Unset

AttrValue(n, name) ==
    IF name \in PlainAttrs THEN PyStr(n[name])
    ELSE IF name = "actor" THEN ShowObj(ActorOf(n))
    ELSE IF n[name] = PyNone THEN PyStr("None") ELSE n[name]

\* One replacement field of str.format(notification=n, **data), with
\* site=... for the email subject: the error it raises, "none" when it
\* has a value.
FieldError(f, n, data, withSite) ==
    IF f.kind = "pos" THEN "IndexError"
    ELSE IF f.kind = "key" THEN (IF f.name \in DOMAIN data THEN "none" ELSE "KeyError")
    ELSE IF f.kind = "site"
         THEN (IF ~withSite THEN "KeyError"
               ELSE IF f.name = "name" THEN "none" ELSE "AttributeError")
    ELSE IF HasAttr(n, f.name) THEN "none" ELSE "AttributeError"

FieldValue(f, n, data) ==
    IF f.kind = "key" THEN PyStr(data[f.name])
    ELSE IF f.kind = "site" THEN PyStr(SiteName)
    ELSE AttrValue(n, f.name)

\* str.format: the fields are evaluated from left to right, the first error
\* ends the call.
Format(template, n, data, withSite) ==
    LET bad == {i \in 1..Len(template) : FieldError(template[i], n, data, withSite) # "none"}
        first == CHOOSE i \in bad : \A j \in bad : i <= j
    IN  IF bad # {}
        THEN [err |-> FieldError(template[first], n, data, withSite), text |-> <<>>]
        ELSE [err |-> "none",
              text |-> [i \in 1..Len(template) |-> FieldValue(template[i], n, data)]]

\* Whether str.format reads notification.actor before it ends.
ReadsActor(template, n, data, withSite) ==
    \E i \in 1..Len(template) :
        /\ template[i] = Attr("actor")
        /\ \A j \in 1..(i - 1) : FieldError(template[j], n, data, withSite) = "none"

\* render_to_string(template, context=dict(notification=n)): a Django
\* template shows a missing variable as nothing and raises no error.
render_to_string(name, n) ==
    <<PyStr("\n"), PyStr(name), PyStr(n.verb), PyStr("\n")>>

IsSpace(x) == x \in {PyStr(" "), PyStr("\n")}

\* str.strip()
RECURSIVE LStrip(_)
LStrip(text) == IF Len(text) > 0 /\ IsSpace(text[1]) THEN LStrip(Tail(text)) ELSE text
RECURSIVE RStrip(_)
RStrip(text) == IF Len(text) > 0 /\ IsSpace(text[Len(text)])
                THEN RStrip(SubSeq(text, 1, Len(text) - 1)) ELSE text
Strip(text) == RStrip(LStrip(text))

\* markdown(md_text) and mark_safe(...)
markdown(md_text) == <<PyStr("<p>")>> \o md_text \o <<PyStr("</p>")>>
mark_safe(html) == [t |-> "SafeString", html |-> html]

\* self.data or {}
DataOr(n) == IF n.data.t = "dict" THEN n.data.v ELSE EmptyDict

RunIdle == [op |-> "none", pc |-> "idle", email |-> FALSE, md |-> <<>>,
            raised |-> "none", err |-> "none", ret |-> PyNone, enq |-> 0]
Returned(op, email, ret) ==
    [op |-> op, pc |-> "idle", email |-> email, md |-> <<>>,
     raised |-> "none", err |-> "none", ret |-> ret, enq |-> 0]
Raised(op, email, raised, err, enq) ==
    [op |-> op, pc |-> "idle", email |-> email, md |-> <<>>,
     raised |-> raised, err |-> err, ret |-> PyNone, enq |-> enq]

Memo(n, name, val) == [n EXCEPT !.memo = With(n.memo, name, val)]
\* The instance after op returned val.
Gave(n, op, val) == [n EXCEPT !.returned = With(n.returned, op, val),
                             !.again = op \in DOMAIN n.returned]

\* Lines 98-102 setting only the links the instance does not have yet.
WithLinksWhereUnset(n, email) ==
    [n EXCEPT
       !.actor_link = IF @ = Unset THEN _get_object_link(ActorOf(n)) ELSE @,
       !.action_link = IF @ = Unset THEN _get_object_link(PyNone) ELSE @,
       !.target_link = IF @ # Unset THEN @
                       ELSE IF email THEN redirect_view_url(n)
                       ELSE _get_object_link(PyNone)]

\* Lines 98-102: the links are set for the rendering.
WithLinks(n, email) ==
    [n EXCEPT
       !.actor_link = _get_object_link(ActorOf(n)),
       !.action_link = _get_object_link(PyNone),
       !.target_link = IF email THEN redirect_view_url(n)
                       ELSE _get_object_link(PyNone)]

\* A notification is loaded from its row into a new instance.
Load(pk, type, data, actor) ==
    /\ run.pc = "idle"
    /\ pk \in rows
    /\ notif' = NewNotification(pk, type, data, actor)
    /\ run' = RunIdle
    /\ UNCHANGED <<cache, tasks, rows>>

\* get_message, lines 96-102 and 124-125: the links are set, or the
\* description is returned.  op "message" is the cached property, which
\* calls get_message() once; op "email_message" is get_message(True).
GetMessageStart(op) ==
    /\ run.pc = "idle"
    /\ notif.pk \in Pks
    /\ LET email == (op = "email_message") IN
       IF op = "message" /\ "message" \in DOMAIN notif.memo
       THEN /\ run' = Returned(op, email, notif.memo["message"])
            /\ notif' = Gave(notif, op, notif.memo["message"])
            /\ UNCHANGED cache
       ELSE IF ~Truthy(notif.type)
       THEN /\ run' = Returned(op, email, PyStr(notif.description))
            /\ notif' = Gave(IF op = "message"
                             THEN Memo(notif, "message", PyStr(notif.description))
                             ELSE notif,
                             op, PyStr(notif.description))
            /\ UNCHANGED cache
       ELSE /\ run' = [RunIdle EXCEPT !.op = op, !.pc = "format", !.email = email]
            /\ notif' = WithLinks(Memo(notif, "actor", ActorOf(notif)), email)
            /\ cache' = CacheAfterActor(notif)
    /\ UNCHANGED <<tasks, rows>>

\* delete_notification.delay dropping the task.
delay_dropping_task(queue, notification_id) == queue
\* delete_notification.delay(notification_id=self.pk), lines 117 and 140.
delete_notification_delay(queue, notification_id) == Append(queue, notification_id)

\* The except clause catching KeyError alone.
CaughtKeyErrorOnly(err) == err = "KeyError"
\* The errors the except clause of lines 113 and 136 catches.
Caught(err) == err \in {"AttributeError", "KeyError"}

\* The md_text of lines 107-112, or the error raised on the way.
MessageText(n) ==
    LET config == get_notification_configuration(n.type) IN
    IF config.err # "none" THEN [err |-> config.err, text |-> <<>>]
    ELSE IF "message" \in DOMAIN config.val
         THEN Format(config.val["message"], n, DataOr(n), FALSE)
         ELSE [err |-> "none",
               text |-> Strip(render_to_string(config.val["message_template"], n))]

\* get_message, lines 104-120: the configuration, the text, the handler.
GetMessageFormat ==
    /\ run.pc = "format"
    /\ LET r == MessageText(notif) IN
       IF r.err = "none"
       THEN /\ run' = [run EXCEPT !.pc = "cleanup", !.md = r.text]
            /\ UNCHANGED tasks
       ELSE IF Caught(r.err)
       THEN /\ Len(tasks) < MaxTasks
            /\ tasks' = delete_notification_delay(tasks, notif.pk)
            /\ run' = Raised(run.op, run.email, r.err, "NotificationRenderException", 1)
       ELSE /\ run' = Raised(run.op, run.email, r.err, r.err, 0)
            /\ UNCHANGED tasks
    /\ UNCHANGED <<notif, cache, rows>>

\* get_message, lines 121-123: the links are cleared, the markup returned.
GetMessageCleanup ==
    /\ run.pc = "cleanup"
    /\ LET ret == mark_safe(markdown(run.md))
           cleared == [notif EXCEPT !.actor_link = PyNone, !.action_link = PyNone,
                                    !.target_link = PyNone] IN
       /\ run' = Returned(run.op, run.email, ret)
       /\ notif' = Gave(IF run.op = "message" THEN Memo(cleared, "message", ret)
                                              ELSE cleared,
                         run.op, ret)
    /\ UNCHANGED <<cache, tasks, rows>>

\* The email subject of a typed notification, lines 130-135.
SubjectText(n) ==
    LET config == get_notification_configuration(n.type) IN
    IF config.err # "none" THEN [err |-> config.err, text |-> <<>>]
    ELSE Format(config.val["email_subject"], n, DataOr(n), TRUE)

\* The instance and the cache once the subject's fields were read.
SubjectReadsActor(n) ==
    LET config == get_notification_configuration(n.type) IN
    /\ config.err = "none"
    /\ ReadsActor(config.val["email_subject"], n, DataOr(n), TRUE)

\* The cached property email_subject, lines 127-147.
EmailSubject ==
    /\ run.pc = "idle"
    /\ notif.pk \in Pks
    /\ IF "email_subject" \in DOMAIN notif.memo
       THEN /\ run' = Returned("email_subject", FALSE, notif.memo["email_subject"])
            /\ notif' = Gave(notif, "email_subject", notif.memo["email_subject"])
            /\ UNCHANGED <<tasks, cache>>
       ELSE IF Truthy(notif.type)
       THEN LET r == SubjectText(notif)
                seen == IF SubjectReadsActor(notif)
                        THEN Memo(notif, "actor", ActorOf(notif)) ELSE notif IN
            /\ cache' = IF SubjectReadsActor(notif) THEN CacheAfterActor(notif) ELSE cache
            /\ IF r.err = "none"
               THEN /\ run' = Returned("email_subject", FALSE,
                                       [t |-> "str", text |-> r.text])
                    /\ notif' = Gave(Memo(seen, "email_subject",
                                           [t |-> "str", text |-> r.text]),
                                      "email_subject", [t |-> "str", text |-> r.text])
                    /\ UNCHANGED tasks
               ELSE IF Caught(r.err)
               THEN /\ Len(tasks) < MaxTasks
                    /\ tasks' = delete_notification_delay(tasks, notif.pk)
                    /\ run' = Raised("email_subject", FALSE, r.err,
                                     "NotificationRenderException", 1)
                    /\ notif' = seen
               ELSE /\ run' = Raised("email_subject", FALSE, r.err, r.err, 0)
                    /\ notif' = seen
                    /\ UNCHANGED tasks
       ELSE IF notif.data.t # "dict"
       THEN \* self.data.get on None, outside the try
            /\ run' = Raised("email_subject", FALSE, "AttributeError", "AttributeError", 0)
            /\ UNCHANGED <<notif, tasks, cache>>
       ELSE IF "email_subject" \in DOMAIN notif.data.v /\ notif.data.v["email_subject"] # ""
       THEN /\ run' = Returned("email_subject", FALSE, PyStr(notif.data.v["email_subject"]))
            /\ notif' = Gave(Memo(notif, "email_subject",
                                   PyStr(notif.data.v["email_subject"])),
                              "email_subject", PyStr(notif.data.v["email_subject"]))
            /\ UNCHANGED <<tasks, cache>>
       ELSE \* self.message: get_message() of an untyped notification
            LET msg == IF "message" \in DOMAIN notif.memo THEN notif.memo["message"]
                       ELSE PyStr(notif.description) IN
            /\ run' = Returned("email_subject", FALSE, msg)
            /\ notif' = Gave(Memo(Memo(notif, "message", msg), "email_subject", msg),
                              "email_subject", msg)
            /\ UNCHANGED <<tasks, cache>>
    /\ UNCHANGED rows

\* tasks.delete_notification: the worker runs the oldest task of the queue.
DeleteTask ==
    /\ tasks # <<>>
    /\ rows' = rows \ {Head(tasks)}
    /\ tasks' = Tail(tasks)
    /\ UNCHANGED <<notif, run, cache>>

\* The types registered before the notifications are rendered.
RenderTypes ==
    [default |-> DefaultConfig,
     x |-> _validate_notification_type(InlineConfig),
     tpl |-> _validate_notification_type(
                 [level |-> "info", verb |-> "saved", email_subject |-> <<Key("who")>>,
                  message_template |-> "ok.md"]),
     attr |-> _validate_notification_type(
                 [level |-> "error", verb |-> "failed",
                  email_subject |-> <<Attr("verb"), Attr("target_link")>>,
                  message |-> <<Attr("target_link"), Attr("nope")>>]),
     pos |-> _validate_notification_type(
                 [level |-> "info", verb |-> "counted", email_subject |-> <<Site("name"), Pos>>,
                  message |-> <<Pos, Key("who")>>])]

InitRenderRegistry ==
    /\ NOTIFICATION_TYPES = RenderTypes
    /\ typeOrder = <<"default", "x", "tpl", "attr", "pos">>
    /\ NOTIFICATION_CHOICES = << <<"default", "Default Type">>, <<"x", "x">>,
                                 <<"tpl", "tpl">>, <<"attr", "attr">>, <<"pos", "pos">> >>
    /\ NOTIFICATION_ASSOCIATED_MODELS = {}
    /\ call = Done("none", PyNone, PyList, {}, "none", EmptyDict)

InitRenderIdle ==
    /\ notif = NewNotification(0, PyNone, PyNone, Ref(PyNone, PyNone))
    /\ run = RunIdle
    /\ tasks = <<>>
    /\ rows = {}

InitRender ==
    /\ notif = NewNotification(0, PyNone, PyNone, Ref(PyNone, PyNone))
    /\ run = RunIdle
    /\ tasks = <<>>
    /\ rows = Pks

NextRender ==
    \/ \E pk \in Pks, type \in TypeInputs, data \in DataInputs, actor \in ActorInputs :
          Load(pk, type, data, actor) /\ UNCHANGED <<regVars, relVars, unreadVars, settingVars>>
    \/ \E op \in {"message", "email_message"} :
          GetMessageStart(op) /\ UNCHANGED <<regVars, relVars, unreadVars, settingVars>>
    \/ GetMessageFormat /\ UNCHANGED <<regVars, relVars, unreadVars, settingVars>>
    \/ GetMessageCleanup /\ UNCHANGED <<regVars, relVars, unreadVars, settingVars>>
    \/ EmailSubject /\ UNCHANGED <<regVars, relVars, unreadVars, settingVars>>
    \/ DeleteTask /\ UNCHANGED <<regVars, relVars, unreadVars, settingVars>>

(***************************************************************************)
(* base/models.py: AbstractNotificationSetting.  The tri-state fields web  *)
(* and email hold "True", "False" or "None".                               *)
(***************************************************************************)
PyBool(b) == IF b THEN "True" ELSE "False"
TriState == {"True", "False", "None"}

\* The types a setting can name, with every combination of the two defaults.
SettingTypes ==
    [default |-> DefaultConfig,
     x |-> _validate_notification_type(
               With(With(InlineConfig, "email_notification", FALSE),
                    "web_notification", FALSE)),
     w |-> _validate_notification_type(With(InlineConfig, "web_notification", FALSE)),
     e |-> _validate_notification_type(With(InlineConfig, "email_notification", FALSE))]

SettingTypeInputs == {PyNone} \cup {PyStr(n) : n \in {"default", "x", "w", "e", "gone"}}

NewSetting(type, web, email) == [type |-> type, web |-> web, email |-> email]

\* type_config: get_notification_configuration(self.type)
type_config(s) == get_notification_configuration(s.type)

\* type_config.get(key): the flag of the type, None when the config has none.
ConfigGet(config, key) ==
    IF key \in DOMAIN config THEN PyBool(config[key]) ELSE "None"

\* The property email_notification: its value, or the error of type_config.
email_notification(s) ==
    IF s.email # "None" THEN [err |-> "none", val |-> s.email]
    ELSE LET c == type_config(s) IN
         IF c.err # "none" THEN [err |-> c.err, val |-> "None"]
         ELSE [err |-> "none", val |-> ConfigGet(c.val, "email_notification")]

\* The property web_notification.
web_notification(s) ==
    IF s.web # "None" THEN [err |-> "none", val |-> s.web]
    ELSE LET c == type_config(s) IN
         IF c.err # "none" THEN [err |-> c.err, val |-> "None"]
         ELSE [err |-> "none", val |-> ConfigGet(c.val, "web_notification")]

\* Python truth value of a tri-state value.
TruthyFlag(v) == v = "True"

SDone(op, err, before) == [op |-> op, err |-> err, before |-> before]

\* save without the test of web_notification.
save_keeping_email(s) == [err |-> "none", s |-> s]

\* save, lines 229-230: the instance it writes, or the error raised.
save(s) ==
    LET wn == web_notification(s) IN
    IF wn.err # "none" THEN [err |-> wn.err, s |-> s]
    ELSE IF ~TruthyFlag(wn.val) THEN [err |-> "none", s |-> [s EXCEPT !.email = wn.val]]
    ELSE [err |-> "none", s |-> s]

\* full_clean clearing both fields whatever they hold.
full_clean_clearing(s) == [err |-> "none", s |-> [s EXCEPT !.email = "None", !.web = "None"]]

\* full_clean normalising email alone.
full_clean_email_only(s) ==
    LET c == type_config(s) IN
    IF c.err # "none" THEN [err |-> c.err, s |-> s]
    ELSE IF "email_notification" \notin DOMAIN c.val THEN [err |-> "KeyError", s |-> s]
    ELSE [err |-> "none",
          s |-> IF s.email = PyBool(c.val["email_notification"])
                THEN [s EXCEPT !.email = "None"] ELSE s]

\* full_clean, lines 234-237: the instance after it, or the error raised.
full_clean(s) ==
    LET c == type_config(s) IN
    IF c.err # "none" THEN [err |-> c.err, s |-> s]
    ELSE IF "email_notification" \notin DOMAIN c.val THEN [err |-> "KeyError", s |-> s]
    ELSE LET s1 == IF s.email = PyBool(c.val["email_notification"])
                   THEN [s EXCEPT !.email = "None"] ELSE s IN
         IF "web_notification" \notin DOMAIN c.val THEN [err |-> "KeyError", s |-> s1]
         ELSE [err |-> "none",
               s |-> IF s1.web = PyBool(c.val["web_notification"])
                     THEN [s1 EXCEPT !.web = "None"] ELSE s1]

\* A setting is built, or its fields are assigned by a form.
Assign(type, web, email) ==
    /\ setting' = NewSetting(type, web, email)
    /\ sdone' = SDone("assign", "none", setting)
    /\ UNCHANGED settingRow

FullClean ==
    LET r == full_clean(setting) IN
    /\ setting' = r.s
    /\ sdone' = SDone("full_clean", r.err, setting)
    /\ UNCHANGED settingRow

\* save: the normalisation and super().save(), which writes the row.
Save ==
    LET r == save(setting) IN
    /\ setting' = r.s
    /\ sdone' = SDone("save", r.err, setting)
    /\ settingRow' = IF r.err = "none" THEN r.s ELSE settingRow

InitSettingRegistry ==
    /\ NOTIFICATION_TYPES = SettingTypes
    /\ typeOrder = <<"default", "x", "w", "e">>
    /\ NOTIFICATION_CHOICES = << <<"default", "Default Type">>, <<"x", "x">>,
                                 <<"w", "w">>, <<"e", "e">> >>
    /\ NOTIFICATION_ASSOCIATED_MODELS = {}
    /\ call = Done("none", PyNone, PyList, {}, "none", EmptyDict)

InitSetting ==
    /\ setting = NewSetting(PyNone, "None", "None")
    /\ sdone = SDone("none", "none", NewSetting(PyNone, "None", "None"))
    /\ settingRow = NewSetting(PyNone, "None", "None")

NextSetting ==
    \/ \E type \in SettingTypeInputs, web \in TriState, email \in TriState :
          Assign(type, web, email)
          /\ UNCHANGED <<regVars, cache, relVars, unreadVars, renderVars>>
    \/ FullClean /\ UNCHANGED <<regVars, cache, relVars, unreadVars, renderVars>>
    \/ Save /\ UNCHANGED <<regVars, cache, relVars, unreadVars, renderVars>>

StartRender == InitRenderRegistry /\ InitCache /\ InitResolve /\ InitUnread /\ InitRender
               /\ InitSetting

SpecRender == StartRender /\ [][NextRender]_vars

\* Rendering with a task queue that runs every task it holds, for
\* notifications without an actor.
QueuedTypeInputs == {PyNone} \cup {PyStr(n) : n \in {"x", "tpl", "attr"}}
QueuedDataInputs == {PyNone, PyDict([who |-> "bob"])}

NextRenderQueued ==
    \/ \E pk \in Pks, type \in QueuedTypeInputs, data \in QueuedDataInputs :
          Load(pk, type, data, Ref(PyNone, PyNone))
          /\ UNCHANGED <<regVars, relVars, unreadVars, settingVars>>
    \/ \E op \in {"message", "email_message"} :
          GetMessageStart(op) /\ UNCHANGED <<regVars, relVars, unreadVars, settingVars>>
    \/ GetMessageFormat /\ UNCHANGED <<regVars, relVars, unreadVars, settingVars>>
    \/ GetMessageCleanup /\ UNCHANGED <<regVars, relVars, unreadVars, settingVars>>
    \/ EmailSubject /\ UNCHANGED <<regVars, relVars, unreadVars, settingVars>>
    \/ DeleteTask /\ UNCHANGED <<regVars, relVars, unreadVars, settingVars>>

SpecRenderFair ==
    StartRender /\ [][NextRenderQueued]_vars
    /\ WF_vars(DeleteTask /\ UNCHANGED <<regVars, relVars, unreadVars, settingVars>>)

StartUnread == InitRegistry /\ InitCacheWithObject /\ InitResolve /\ InitUnread
               /\ InitRenderIdle /\ InitSetting

SpecUnread == StartUnread /\ [][NextUnread]_vars

StartResolve == InitRegistry /\ InitCache /\ InitResolve /\ InitUnread /\ InitRenderIdle
                /\ InitSetting

SpecResolve == StartResolve /\ [][NextResolve]_vars

StartRegistry == InitRegistry /\ InitCache /\ InitResolve /\ InitUnread /\ InitRenderIdle
                 /\ InitSetting

SpecRegistry == StartRegistry /\ [][NextRegistry]_vars

StartSetting == InitSettingRegistry /\ InitCache /\ InitResolve /\ InitUnread
                /\ InitRenderIdle /\ InitSetting

SpecSetting == StartSetting /\ [][NextSetting]_vars

(***************************************************************************)
(* Claims about rendering.                                                 *)
(***************************************************************************)
\* The step ends a get_message or email_subject call on a typed
\* notification in which str.format raised KeyError or AttributeError.
FormatFailed ==
    /\ Truthy(notif.type)
    /\ run'.pc = "idle"
    /\ run'.op \in {"message", "email_message", "email_subject"}
    /\ run'.raised \in {"KeyError", "AttributeError"}
    /\ run' # run \/ Len(tasks') > Len(tasks)

\* C1: a get_message or email_subject call on a typed notification that
\* hits a missing key or a missing attribute ends with
\* NotificationRenderException and has put exactly one delete_notification
\* task with the notification's pk on the queue by then.
C1_RenderFailureEnqueuesOneDeletion ==
    [][FormatFailed =>
          /\ run'.err = "NotificationRenderException"
          /\ run'.enq = 1
          /\ tasks' = Append(tasks, notif.pk)]_vars

C1_Witness ==
    /\ run.op = "email_message"
    /\ run.raised = "AttributeError"
    /\ run.err = "NotificationRenderException"
    /\ Len(tasks) = 2
    /\ tasks[2] = notif.pk
    /\ tasks[1] # notif.pk

\* C2: whenever no get_message call is in progress on the instance, its
\* three link fields are unset or None.
C2_LinksClearedWhenIdle ==
    run.pc = "idle" => \A l \in LinkNames : notif[l] \in {Unset, PyNone}

\* The subject of an untyped notification: data's email_subject when it is
\* not empty, the description otherwise.
UntypedSubject(n) ==
    IF n.data.t = "dict" /\ "email_subject" \in DOMAIN n.data.v
       /\ n.data.v["email_subject"] # ""
    THEN PyStr(n.data.v["email_subject"])
    ELSE PyStr(n.description)

\* C13: email_subject of a notification without a type returns data's
\* email_subject when it is not empty and the description otherwise,
\* whatever data is, None included, and neither fails nor enqueues a task.
C13_UntypedSubjectNeverFails ==
    (run.op = "email_subject" /\ run.pc = "idle" /\ notif.type = PyNone) =>
        /\ run.err = "none"
        /\ run.enq = 0
        /\ run.ret = UntypedSubject(notif)

\* A rendering call on the notification pk ended in
\* NotificationRenderException while its row was stored.
RenderFailed(pk) ==
    /\ run.pc = "idle"
    /\ run.err = "NotificationRenderException"
    /\ notif.pk = pk
    /\ pk \in rows

\* C14: when the queue runs every task, a stored notification whose
\* rendering failed is removed in the end and stays removed; no row that
\* was removed is stored again.
C14_FailedNotificationIsRemoved ==
    /\ \A pk \in Pks : [](RenderFailed(pk) => <>[](pk \notin rows))
    /\ [][rows' \subseteq rows]_vars

\* The call has returned its failure while the row is still stored and the
\* task is still on the queue.
C14_Witness ==
    /\ RenderFailed(notif.pk)
    /\ tasks # <<>>
    /\ tasks[Len(tasks)] = notif.pk

\* The fields of the notification's row.
StoredFields(n) == <<n.pk, n.type, n.data, n.description, n.verb, n.level, n.actor>>

\* The step ends a message, email_message or email_subject call that
\* returns a value.
RenderSucceeds ==
    /\ run'.pc = "idle"
    /\ run'.err = "none"
    /\ run'.op \in {"message", "email_message", "email_subject"}
    /\ run' # run \/ notif' # notif

\* C19: a rendering call that returns enqueues no task and leaves the
\* registry and the fields of the notification's row as they are, and what
\* it returns is what the same property of the instance returned before.
C19_RenderIsIdempotent ==
    [][RenderSucceeds =>
          /\ tasks' = tasks
          /\ UNCHANGED regState
          /\ StoredFields(notif') = StoredFields(notif)
          /\ run.op # "none" /\ run'.op \in DOMAIN notif.returned =>
                run'.ret = notif.returned[run'.op]]_vars

\* email_message has returned the same markup twice on an instance that
\* resolved its actor, with nothing on the queue.
C19_Witness ==
    /\ run.op = "email_message"
    /\ run.pc = "idle"
    /\ run.err = "none"
    /\ notif.type = PyStr("default")
    /\ TruthyObj(ActorOf(notif))
    /\ notif.again
    /\ "email_message" \in DOMAIN notif.returned
    /\ run.ret = notif.returned["email_message"]
    /\ notif.actor_link = PyNone
    /\ tasks = <<>>

(***************************************************************************)
(* Claims about _related_object.                                           *)
(***************************************************************************)
\* C8: a call that starts after a call stored the object of its reference,
\* with no expiry, deletion, change of the row or store of another value
\* since, does no lookup of the underlying object and returns the value that
\* call stored.
C8_SecondCallHitsCache ==
    \A w \in Workers :
        rel[w].after =>
            /\ rel[w].pc \in {"get", "idle"}
            /\ ~rel[w].looked
            /\ rel[w].pc = "idle" => rel[w].ret = stored[rel[w].ref]

C8_Witness ==
    \E w \in Workers :
        /\ rel[w].after
        /\ rel[w].pc = "idle"
        /\ TruthyObj(rel[w].ret)
        /\ rel[w].ret = stored[rel[w].ref]
        /\ objects[rel[w].ref] > 0

\* The step that ends the call of worker w, for a reference whose row was
\* gone when the call started.
ReturnsForGone(w) ==
    /\ rel[w].pc # "idle"
    /\ rel'[w].pc = "idle"
    /\ rel[w].gone

\* C9, as claimed: when the referenced row no longer exists, the call returns
\* None and the cache holds None under the reference's key after it.
C9_GoneObjectGivesNone ==
    [][\A w \in Workers :
         ReturnsForGone(w) =>
             /\ rel'[w].ret = PyNone
             /\ RefKey(rel[w].ref) \in DOMAIN cache'
             /\ cache'[RefKey(rel[w].ref)] = PyNone]_vars

\* C9, amended: when the referenced row no longer exists and cache.get found
\* no object under the key, the call returns None and stores None under the
\* key; when the cache still holds the object from before the deletion, the
\* call returns that object and leaves the cache as it is.
C9_GoneObjectGivesNoneOnMiss ==
    [][\A w \in Workers :
         ReturnsForGone(w) =>
             IF rel'[w].looked
             THEN /\ rel'[w].ret = PyNone
                  /\ RefKey(rel[w].ref) \in DOMAIN cache'
                  /\ cache'[RefKey(rel[w].ref)] = PyNone
             ELSE /\ TruthyObj(rel'[w].ret)
                  /\ rel'[w].ret = CacheGet(RefKey(rel[w].ref))
                  /\ cache' = cache]_vars

C9_Witness ==
    \E w \in Workers :
        /\ rel[w].gone
        /\ rel[w].looked
        /\ rel[w].pc = "idle"
        /\ rel[w].ret = PyNone
        /\ RefKey(rel[w].ref) \in DOMAIN cache
        /\ cache[RefKey(rel[w].ref)] = PyNone

\* The step in which worker w does its cache.get.
DoesCacheGet(w) == rel[w].pc = "get" /\ rel'[w].pc # "get"

\* The step in which worker w starts a call for a reference with a falsy
\* object id.
StartsWithFalsyId(w) ==
    /\ rel[w].pc = "idle"
    /\ rel'[w] # rel[w]
    /\ ~TruthyId(rel'[w].ref.id)

\* C16: a call that finds an entry under its key, an entry holding None
\* included, returns the entry's value with no lookup of the underlying
\* object and no write to the cache; a call with a falsy object id returns
\* None and leaves the cache alone.
C16_LookupOnlyOnMiss ==
    [][\A w \in Workers :
         /\ (DoesCacheGet(w) /\ RefKey(rel[w].ref) \in DOMAIN cache) =>
               /\ rel'[w].pc = "idle"
               /\ rel'[w].ret = cache[RefKey(rel[w].ref)]
               /\ ~rel'[w].looked
               /\ cache' = cache
         /\ StartsWithFalsyId(w) =>
               /\ rel'[w].pc = "idle"
               /\ rel'[w].ret = PyNone
               /\ cache' = cache]_vars

\* Worker v has finished a call for ref that missed the cache, and the row
\* has not changed since that call started.
FinishedMiss(v, ref) ==
    /\ rel'[v].pc = "idle"
    /\ rel'[v].ref = ref
    /\ rel'[v].looked
    /\ rel'[v].seen = objects'[ref]
    /\ objects'[ref] > 0

\* C18: when a call that missed the cache finishes and another call for the
\* same reference that missed has finished too, the row unchanged since
\* either started, both have returned the same object and the cache holds
\* that object under the key.
C18_ConcurrentMissesAgree ==
    [][\A w \in Workers : \A v \in Workers \ {w} :
         (/\ rel[w].pc = "set"
          /\ FinishedMiss(w, rel[w].ref)
          /\ FinishedMiss(v, rel[w].ref)) =>
             /\ rel'[w].ret = PyObj(rel[w].ref, objects'[rel[w].ref])
             /\ rel'[v].ret = rel'[w].ret
             /\ RefKey(rel[w].ref) \in DOMAIN cache'
             /\ cache'[RefKey(rel[w].ref)] = rel'[w].ret]_vars

\* Both calls have finished, and the second store wrote over the first.
C18_Witness ==
    \E w \in Workers : \E v \in Workers \ {w} :
        /\ rel[w].pc = "idle" /\ rel[v].pc = "idle"
        /\ rel[w].ref = rel[v].ref
        /\ rel[w].looked /\ rel[v].looked
        /\ rel[w].overwrote
        /\ rel[w].seen = objects[rel[w].ref] /\ rel[v].seen = rel[w].seen
        /\ TruthyObj(rel[w].ret)
        /\ rel[v].ret = rel[w].ret
        /\ cache[RefKey(rel[w].ref)] = rel[w].ret

(***************************************************************************)
(* Claims about the unread count.                                          *)
(***************************************************************************)
\* The cache holds for the user a count older than the one the last
\* invalidation was called for.
StaleCount(user) ==
    /\ count_cache_key(user) \in DOMAIN cache
    /\ cache[count_cache_key(user)].n < invalidated[user]

\* invalidate_unread_cache(user) removes the user's unread key and leaves
\* every other entry as it is.
DeletesOnlyOwnKey(user) ==
    invalidate_unread_cache(user) =>
        /\ count_cache_key(user) \notin DOMAIN cache'
        /\ \A k \in (DOMAIN cache) \ {count_cache_key(user)} :
              k \in DOMAIN cache' /\ cache'[k] = cache[k]
        /\ DOMAIN cache' \subseteq DOMAIN cache

\* C10, as claimed: in every interleaving the cache never holds for a user a
\* count older than the one the last completed invalidation was called for,
\* and an invalidation deletes only the user's own key.
C10_NeverStaleAfterInvalidate ==
    [][/\ \A u \in Users : ~StaleCount(u)'
       /\ \A u \in Users : DeletesOnlyOwnKey(u)]_vars

\* C10, amended: an invalidation leaves the user's key absent and deletes
\* only that key; afterwards the cache holds an older count for the user
\* only when a reader that took the count from the database before the
\* change stored it after the invalidation.
C10_StaleOnlyByLateStore ==
    [][/\ \A u \in Users : StaleCount(u)' => lateStore'[u]
       /\ \A u \in Users : DeletesOnlyOwnKey(u)]_vars

C10_Witness ==
    \E u \in Users, v \in Users :
        /\ u # v
        /\ StaleCount(u)
        /\ lateStore[u]
        /\ count_cache_key(v) \in DOMAIN cache
        /\ Cardinality(DOMAIN cache) = 3

(***************************************************************************)
(* Claims about the registry.                                              *)
(***************************************************************************)
RequiredKeys == {"level", "verb", "email_subject"}

LacksRequired(cfg) ==
    \/ RequiredKeys \ DOMAIN cfg # {}
    \/ {"message", "message_template"} \cap DOMAIN cfg = {}

TemplateUnloadable(cfg) ==
    /\ "message_template" \in DOMAIN cfg
    /\ cfg["message_template"] \notin LoadableTemplates

\* A register call whose name is a string and whose config is a mapping that
\* validation has to reject.
RejectedRegister ==
    /\ call.op = "register"
    /\ call.name.t = "str"
    /\ call.config.t = "dict"
    /\ LacksRequired(call.config.v) \/ TemplateUnloadable(call.config.v)

\* C3, as claimed: a register call with a config that lacks level, verb or
\* email_subject, has neither message nor message_template, or names a
\* message_template that cannot be loaded fails with ImproperlyConfigured.
C3_RejectedConfigIsImproperlyConfigured ==
    RejectedRegister => call.err = "ImproperlyConfigured"

\* C3, amended: such a call fails; with ImproperlyConfigured only when the
\* name is already registered, otherwise with the AssertionError of the
\* failed assert when a required key is missing, and with the template
\* loader's TemplateDoesNotExist when every required key is there and the
\* template cannot be loaded.
C3_RejectedConfigFailsByKind ==
    RejectedRegister =>
        /\ call.err # "none"
        /\ call.err =
             IF call.name.v \in DOMAIN NOTIFICATION_TYPES THEN "ImproperlyConfigured"
             ELSE IF LacksRequired(call.config.v) THEN "AssertionError"
             ELSE "TemplateDoesNotExist"

C3_Witness ==
    /\ RejectedRegister
    /\ call.err = "TemplateDoesNotExist"
    /\ "message" \in DOMAIN call.config.v

\* C4: a register call that fails leaves the type mapping, the choice
\* sequence and the associated-model set as they were.
C4_FailedRegisterChangesNothing ==
    [][(call'.op = "register" /\ call'.err # "none") => UNCHANGED regState]_vars

C4_Witness ==
    /\ call.op = "register"
    /\ call.err = "AssertionError"
    /\ call.models # {}
    /\ NOTIFICATION_ASSOCIATED_MODELS = {}

\* C5: registering a non-empty name that is registered fails with
\* ImproperlyConfigured, and get(name) returns the same configuration after
\* the call as before it.
C5_DuplicateRegisterFails ==
    [][\A n \in NameInputs :
         (/\ call'.op = "register"
          /\ call'.name = n
          /\ n.t = "str"
          /\ n.v # ""
          /\ n.v \in DOMAIN NOTIFICATION_TYPES)
         => /\ call'.err = "ImproperlyConfigured"
            /\ get_notification_configuration(n).err = "none"
            /\ get_notification_configuration(n)' = get_notification_configuration(n)]_vars

C5_Witness ==
    /\ call.op = "register"
    /\ call.name = PyStr("default")
    /\ call.config.t = "dict"
    /\ ValidationError(call.config.v) = "none"
    /\ call.err = "ImproperlyConfigured"
    /\ get_notification_configuration(call.name).val = DefaultConfig

Flag(cfg, key) == IF key \in DOMAIN cfg THEN cfg[key] ELSE TRUE

\* C6: after a successful register of a non-empty name, get(name) returns a
\* config whose email_notification and web_notification are true when the
\* registered config omitted them and its values otherwise; after a
\* successful unregister, get(name) fails with ImproperlyConfigured.
C6_RegisterGetRoundTrip ==
    LET got == get_notification_configuration(call.name) IN
    /\ (call.op = "register" /\ call.err = "none" /\ call.name.v # "") =>
          /\ got.err = "none"
          /\ {"email_notification", "web_notification"} \subseteq DOMAIN got.val
          /\ got.val["email_notification"] = Flag(call.config.v, "email_notification")
          /\ got.val["web_notification"] = Flag(call.config.v, "web_notification")
    /\ (call.op = "unregister" /\ call.err = "none" /\ call.name.v # "") =>
          got.err = "ImproperlyConfigured"

\* "default" registered with another config: it was unregistered before.
C6_Witness ==
    /\ call.op = "register"
    /\ call.err = "none"
    /\ call.name = PyStr("default")
    /\ "email_notification" \notin DOMAIN call.config.v
    /\ "web_notification" \in DOMAIN call.config.v
    /\ "x" \in DOMAIN NOTIFICATION_TYPES

KeepOthers(choices, name) == SelectSeq(choices, LAMBDA c : c[1] # name)

\* C7: unregister of a registered name removes that name's config entry and
\* its one choice entry and nothing else; unregister of any other name fails
\* with ImproperlyConfigured and changes nothing.
C7_UnregisterRemovesExactlyOne ==
    [][call'.op = "unregister" =>
         IF call'.name.t = "str" /\ call'.name.v \in DOMAIN NOTIFICATION_TYPES
         THEN /\ call'.err = "none"
              /\ NOTIFICATION_TYPES' = Without(NOTIFICATION_TYPES, {call'.name.v})
              /\ NOTIFICATION_CHOICES' = KeepOthers(NOTIFICATION_CHOICES, call'.name.v)
              /\ Len(NOTIFICATION_CHOICES') = Len(NOTIFICATION_CHOICES) - 1
              /\ UNCHANGED NOTIFICATION_ASSOCIATED_MODELS
         ELSE /\ call'.err = "ImproperlyConfigured"
              /\ UNCHANGED regState]_vars

\* "default", the first choice, was removed and two later ones stay.
C7_Witness ==
    /\ call.op = "unregister"
    /\ call.err = "none"
    /\ call.name = PyStr("default")
    /\ Len(NOTIFICATION_CHOICES) = 2
    /\ NOTIFICATION_ASSOCIATED_MODELS # {}

(***************************************************************************)
(* Claims about the notification setting.                                  *)
(***************************************************************************)
\* The setting names a registered type.
RegisteredType(s) == s.type.t = "str" /\ s.type.v \in DOMAIN NOTIFICATION_TYPES

DefaultWeb(s) == PyBool(NOTIFICATION_TYPES[s.type.v]["web_notification"])
DefaultEmail(s) == PyBool(NOTIFICATION_TYPES[s.type.v]["email_notification"])

\* C11: after a save of a setting of a registered type, whatever calls came
\* before it, an effective web_notification of false comes with an effective
\* email_notification of false.
C11_EmailRequiresWeb ==
    (sdone.op = "save" /\ sdone.err = "none" /\ RegisteredType(setting)) =>
        (web_notification(setting).val = "False" =>
            email_notification(setting).val = "False")

C11_Witness ==
    /\ sdone.op = "save"
    /\ sdone.err = "none"
    /\ setting.type = PyStr("w")
    /\ sdone.before.web = "None"
    /\ sdone.before.email = "True"
    /\ setting.email = "False"
    /\ settingRow = setting

\* C12: after full_clean of a setting of a registered type, a web or email
\* value that was equal to the type's default is None, no stored value
\* equals the type's default, and the effective web_notification of a
\* normalised web is the type's default.
C12_DefaultsStoredAsNone ==
    (sdone.op = "full_clean" /\ sdone.err = "none" /\ RegisteredType(setting)) =>
        /\ sdone.before.web = DefaultWeb(setting) =>
              /\ setting.web = "None"
              /\ web_notification(setting) = [err |-> "none", val |-> DefaultWeb(setting)]
        /\ sdone.before.email = DefaultEmail(setting) => setting.email = "None"
        /\ setting.web # DefaultWeb(setting)
        /\ setting.email # DefaultEmail(setting)

C12_Witness ==
    /\ sdone.op = "full_clean"
    /\ sdone.err = "none"
    /\ setting.type = PyStr("x")
    /\ sdone.before.web = "False"
    /\ sdone.before.email = "True"
    /\ setting.web = "None"
    /\ setting.email = "True"

\* C20: full_clean of a setting of a registered type leaves the effective
\* web_notification and email_notification as they were, and a second
\* full_clean changes nothing.
C20_FullCleanKeepsEffectiveValues ==
    (sdone.op = "full_clean" /\ sdone.err = "none" /\ RegisteredType(setting)) =>
        /\ web_notification(setting) = web_notification(sdone.before)
        /\ email_notification(setting) = email_notification(sdone.before)
        /\ full_clean(setting) = [err |-> "none", s |-> setting]

C20_Witness ==
    /\ sdone.op = "full_clean"
    /\ sdone.err = "none"
    /\ setting.type = PyStr("e")
    /\ sdone.before.email = "False"
    /\ sdone.before.web = "False"
    /\ setting.email = "None"
    /\ setting.web = "False"
    /\ email_notification(setting).val = "False"

\* C15: get of None and of the empty string returns the empty configuration
\* in every registry state, registered empty name included; get of a
\* non-empty name that is not registered fails with ImproperlyConfigured;
\* no get changes the registry.
C15_GetNullAndUnknown ==
    [][call'.op = "get" =>
          /\ UNCHANGED regState
          /\ ~Truthy(call'.name) =>
                (call'.err = "none" /\ call'.val = EmptyDict)
          /\ (Truthy(call'.name) /\ call'.name.v \notin DOMAIN NOTIFICATION_TYPES) =>
                call'.err = "ImproperlyConfigured"]_vars

C15_Witness ==
    /\ call.op = "get"
    /\ call.name = PyStr("")
    /\ "" \in DOMAIN NOTIFICATION_TYPES
    /\ call.err = "none"
    /\ call.val = EmptyDict

\* The verbose name a choice shows for a registered type.
ChoiceName(n) ==
    IF "verbose_name" \in DOMAIN NOTIFICATION_TYPES[n]
    THEN NOTIFICATION_TYPES[n]["verbose_name"] ELSE n

\* C17: the choice sequence holds exactly the registered names, each once,
\* in the order in which the names now registered were registered, each
\* with its config's verbose_name, or with the name when there is none.
C17_ChoicesMirrorTypes ==
    /\ {typeOrder[i] : i \in 1..Len(typeOrder)} = DOMAIN NOTIFICATION_TYPES
    /\ Len(typeOrder) = Cardinality(DOMAIN NOTIFICATION_TYPES)
    /\ Len(NOTIFICATION_CHOICES) = Len(typeOrder)
    /\ \A i \in 1..Len(NOTIFICATION_CHOICES) :
          NOTIFICATION_CHOICES[i] = <<typeOrder[i], ChoiceName(typeOrder[i])>>

C17_Witness ==
    /\ call.op = "register"
    /\ call.err = "none"
    /\ call.name = PyStr("default")
    /\ NOTIFICATION_CHOICES =
          << <<"x", "X Type">>, <<"", "">>, <<"default", "default">> >>
====
